---------------------------- MODULE Spec2Model ----------------------------
(***************************************************************************)
(* Model of the live-update subsystem of the attendance dashboard:         *)
(* the EventService singleton of frontend/src/services/eventService.jsx    *)
(* (one EventSource, a listener registry keyed by event type, a fixed      *)
(* 3 s reconnection timer) together with the browser's EventSource, which  *)
(* fires open, message and error events at the handlers connect() sets,    *)
(* and the three routed views (Dashboard, EmployeeList, AttendanceView)    *)
(* whose effects fetch, connect and subscribe.                             *)
(*                                                                         *)
(* JavaScript runs every handler to completion on one thread, so each      *)
(* handler and each public method is one atomic action.                    *)
(***************************************************************************)
EXTENDS Integers, Sequences, FiniteSets

\* ---------------------------------------------------------------- bounds
MaxSources   == 3    \* EventSource objects ever constructed
MaxTimers    == 2    \* setTimeout callbacks pending at once
MaxListeners == 2    \* registrations held in the registry at once
MaxFrames    == 2    \* frames received over the whole run
MaxPending   == 2    \* distinct requests followed to their settlement

\* ------------------------------------------------------------- constants
NULL == 0                       \* this.eventSource = null

DefaultURL == "http://localhost:8080"
OtherURL   == "http://backend:8080"
URLs == {DefaultURL, OtherURL}

\* Event types: the types the views subscribe to, one name that every JS
\* object inherits from Object.prototype, and the wildcard marker.
EventTypes == {"attendance_scan", "employee_added", "employee_deleted",
               "manual_checkout"}
Inherited  == {"toString"}
Wildcard   == "*"
Keys       == EventTypes \cup Inherited \cup {Wildcard}

\* The type fields of the frames the router specifications receive.
FrameTypes == {"attendance_scan", "employee_added"} \cup Inherited
                 \cup {Wildcard}

\* The keys callers of on/off use below: frames of type employee_added
\* arrive, but no list is ever kept for them.
SubscribedKeys == {"attendance_scan", Wildcard} \cup Inherited

\* Callbacks are function references; two references are equal iff they
\* are the same function object.
Callbacks == {"f", "g"}

NoFrame == [kind |-> "none", type |-> "none"]
Frames  == {[kind |-> "malformed", type |-> "none"]}
             \cup {[kind |-> "event", type |-> t] : t \in FrameTypes}

VARIABLES
    eventSource,      \* this.eventSource: NULL or the index of a source
    sources,          \* every EventSource constructed: readyState, url
    timers,           \* pending setTimeout callbacks (FIFO, equal delay),
                      \* each holding the baseURL its closure captured
    listeners,        \* this.listeners: key -> array of callbacks
    received,         \* number of frames handed to onmessage so far
    lastFrame,        \* the frame most recently handed to onmessage
    delivered,        \* the callback invocations the most recent run of
                      \* onmessage made, in the order made
    seen,             \* history: per callback, the numbers of the frames
                      \* it has been invoked for
    removed,          \* history: <<key, callback>> pairs removed by off()
                      \* and not registered again since
    afterDisconnect,  \* history: disconnect() was called by the
                      \* application and connect() has not been since
    offThrew,         \* history: the most recent call of off() ended in
                      \* an exception
    faulted,          \* history: the source this.eventSource names has
                      \* had its onerror called
    route,            \* the view the router has mounted, or NoView
    params,           \* the mounted view's state (date, tab, filters)
    captured,         \* the state the mounted view's subscribing effect
                      \* last ran with: the scope its handlers close over
    fetched,          \* the API requests issued by the latest step that
                      \* ran view code, in the order issued
    connected,        \* the mounted view's connected state, which its
                      \* header shows as Live; FALSE when none is mounted
    stale,            \* history: the server has emitted an event of a
                      \* type the mounted view subscribes to, and the
                      \* view has issued no request since
    inflight,         \* the distinct requests awaiting their response
                      \* that are followed to their settlement, each
                      \* with whether its component is still mounted
    settled,          \* the request whose promise settled most recently,
                      \* with its outcome
    data              \* per API, the arguments of the request whose
                      \* response the mounted view's state holds

viewVars == <<route, params, captured, fetched, connected, stale>>

fetchVars == <<inflight, settled, data>>

vars == <<eventSource, sources, timers, listeners, received, lastFrame,
          delivered, seen, removed, afterDisconnect, offThrew, faulted,
          route, params, captured, fetched, connected, stale, inflight,
          settled, data>>

\* ------------------------------------------------------------ transport
\* The transport part of the service state, as a record the methods map.
svc == [eventSource |-> eventSource, sources |-> sources, timers |-> timers]

\* connect(baseURL), without the guard on this.eventSource.
connect_NoGuard(s, baseURL) ==
    [s EXCEPT !.eventSource = Len(s.sources) + 1,
              !.sources = Append(@, [readyState |-> "CONNECTING",
                                     url |-> baseURL])]

\* connect(baseURL): returns at once when this.eventSource is set,
\* otherwise constructs an EventSource (readyState CONNECTING) whose
\* handlers capture baseURL.
connect(s, baseURL) ==
    IF s.eventSource # NULL
    THEN s
    ELSE [s EXCEPT !.eventSource = Len(s.sources) + 1,
                   !.sources = Append(@, [readyState |-> "CONNECTING",
                                          url |-> baseURL])]

\* disconnect() that also schedules a reconnection.
disconnect_Reschedules(s) ==
    [s EXCEPT !.eventSource = NULL,
              !.timers = Append(@, DefaultURL)]

\* disconnect(): closes and forgets the current EventSource, if any.
disconnect(s) ==
    IF s.eventSource # NULL
    THEN [s EXCEPT !.sources[s.eventSource].readyState = "CLOSED",
                   !.eventSource = NULL]
    ELSE s

\* A disconnect() that drops the subscriptions with the connection.
disconnectListeners_Cleared(ls) == [k \in DOMAIN ls |-> <<>>]

\* What disconnect() does to this.listeners: nothing.  The registry is
\* created once, by the constructor, and only on() and off() assign it.
disconnectListeners(ls) == ls

\* reconnect(baseURL) without its setTimeout.
reconnect_NoTimer(s, baseURL) == s

\* reconnect(baseURL): schedules the timeout callback; nothing else.
reconnect(s, baseURL) == [s EXCEPT !.timers = Append(@, baseURL)]

\* The timeout callback calling connect() only.
timeoutCallback_NoDisconnect(s, baseURL) == connect(s, baseURL)

\* The callback reconnect() hands to setTimeout.
timeoutCallback(s, baseURL) == connect(disconnect(s), baseURL)

\* The browser's part of an error on source es: a network error leaves the
\* source CONNECTING (the browser retries by itself), a fatal one CLOSED.
browserError(s, es, fatal) ==
    [s EXCEPT !.sources[es].readyState =
                  IF fatal THEN "CLOSED" ELSE "CONNECTING"]

\* eventSource.onerror of the source es.
onerror(s, es) == reconnect(s, s.sources[es].url)

\* ------------------------------------------------------------- registry
\* on(eventType, callback).  For an inherited key this.listeners[key] is a
\* function of Object.prototype: truthy, so no array is created, and the
\* call of its undefined .push throws; the registry is left as it was.
on(ls, eventType, callback) ==
    IF eventType \in Inherited
    THEN ls
    ELSE [ls EXCEPT ![eventType] = Append(@, callback)]

\* off(eventType, callback), removing only the first matching entry.
RECURSIVE RemoveFirst(_, _)
RemoveFirst(arr, callback) ==
    IF arr = <<>> THEN <<>>
    ELSE IF Head(arr) = callback THEN Tail(arr)
    ELSE <<Head(arr)>> \o RemoveFirst(Tail(arr), callback)

off_FirstOnly(ls, eventType, callback) ==
    IF eventType \in Inherited
    THEN ls
    ELSE [ls EXCEPT ![eventType] = RemoveFirst(@, callback)]

\* off(eventType, callback): filter(cb => cb !== callback) drops every
\* entry that is this callback.  An inherited key throws as in on().
off(ls, eventType, callback) ==
    IF eventType \in Inherited
    THEN ls
    ELSE [ls EXCEPT ![eventType] = SelectSeq(@, LAMBDA cb : cb # callback)]

\* off(eventType, callback) ends in a TypeError: this.listeners[eventType]
\* is truthy and has no filter method.
offThrows(ls, eventType) == eventType \in Inherited

\* Number of registrations the registry holds.
RECURSIVE SumLen(_, _)
SumLen(ls, keys) ==
    IF keys = {} THEN 0
    ELSE LET k == CHOOSE x \in keys : TRUE
         IN  Len(ls[k]) + SumLen(ls, keys \ {k})

Registered(ls) == SumLen(ls, Keys)

\* ------------------------------------------------------------- dispatch
Invocation(n, type, key, arg, callback, threw) ==
    [frame |-> n, type |-> type, key |-> key, arg |-> arg,
     cb |-> callback, threw |-> threw]

\* What a callback does to the service while it runs: acts maps a callback
\* to the calls of on/off it makes, in order; a callback acts does not
\* name makes none.
NoActs == [c \in {} |-> <<>>]
ActsOf(acts, callback) ==
    IF callback \in DOMAIN acts THEN acts[callback] ELSE <<>>

RECURSIVE perform(_, _)
perform(ls, calls) ==
    IF calls = <<>> THEN ls
    ELSE perform(IF Head(calls).op = "off"
                 THEN off(ls, Head(calls).key, Head(calls).cb)
                 ELSE on(ls, Head(calls).key, Head(calls).cb),
                 Tail(calls))

\* A loop over the array the registry holds at the moment of each read.
iterated_Live(arr, now) == now

\* The array a running forEach reads: the one it was called on.  off()
\* assigns a new, filtered array to the key and leaves that one as it was.
iterated(arr, now) == arr

\* array.forEach(callback => callback(arg)) from index i on: the indexes
\* are those of the array at the start of the loop, an index the array no
\* longer has is passed over, the callbacks are called in array order and
\* a callback that throws ends the loop, the exception propagating.  The
\* result is the invocations made and the registry the callbacks leave.
RECURSIVE forEach(_, _, _, _, _, _)
forEach(arr, i, ls, ev, throwers, acts) ==
    IF i > Len(arr) THEN [invs |-> <<>>, ls |-> ls]
    ELSE LET read == iterated(arr, ls[ev.key])
         IN  IF i > Len(read)
             THEN forEach(arr, i + 1, ls, ev, throwers, acts)
             ELSE IF read[i] \in throwers
             THEN [invs |-> <<Invocation(ev.n, ev.type, ev.key, ev.arg,
                                         read[i], TRUE)>>,
                   ls |-> ls]
             ELSE LET rest == forEach(arr, i + 1,
                                      perform(ls, ActsOf(acts, read[i])),
                                      ev, throwers, acts)
                  IN  [invs |-> <<Invocation(ev.n, ev.type, ev.key, ev.arg,
                                             read[i], FALSE)>> \o rest.invs,
                       ls |-> rest.ls]

Threw(invs) == invs # <<>> /\ invs[Len(invs)].threw

\* The two loops of the handler: the array of a key is read from the
\* registry when its loop starts.
exactLoop(ls, n, frame, throwers, acts) ==
    forEach(ls[frame.type], 1, ls,
            [n |-> n, type |-> frame.type, key |-> frame.type,
             arg |-> "payload"], throwers, acts)

wildcardLoop(ls, n, frame, throwers, acts) ==
    forEach(ls[Wildcard], 1, ls,
            [n |-> n, type |-> frame.type, key |-> Wildcard,
             arg |-> "envelope"], throwers, acts)

\* The handler with JSON.parse outside the try: a frame that does not
\* decode is handed to the wildcard subscribers.
dispatch_UndecodedToWildcard(ls, n, frame, throwers, acts) ==
    IF frame.kind = "malformed" \/ frame.type \in Inherited
    THEN wildcardLoop(ls, n, frame, throwers, acts)
    ELSE LET exact == exactLoop(ls, n, frame, throwers, acts)
         IN  IF Threw(exact.invs) THEN exact
             ELSE LET wild == wildcardLoop(exact.ls, n, frame, throwers, acts)
                  IN  [invs |-> exact.invs \o wild.invs, ls |-> wild.ls]

\* The handler with its two loops in the other order.
dispatch_WildcardFirst(ls, n, frame, throwers, acts) ==
    IF frame.kind = "malformed" THEN [invs |-> <<>>, ls |-> ls]
    ELSE IF frame.type \in Inherited THEN [invs |-> <<>>, ls |-> ls]
    ELSE LET wild == wildcardLoop(ls, n, frame, throwers, acts)
         IN  IF Threw(wild.invs) THEN wild
             ELSE LET exact == exactLoop(wild.ls, n, frame, throwers, acts)
                  IN  [invs |-> wild.invs \o exact.invs, ls |-> exact.ls]

\* One call of eventSource.onmessage, frame n: the invocations it makes
\* and the registry it leaves.  A frame that JSON.parse rejects, and an
\* event whose type is an inherited key (forEach of a non-array throws),
\* reach the catch with no callback called; an exception out of the first
\* loop skips the second.
dispatch(ls, n, frame, throwers, acts) ==
    IF frame.kind = "malformed" THEN [invs |-> <<>>, ls |-> ls]
    ELSE IF frame.type \in Inherited THEN [invs |-> <<>>, ls |-> ls]
    ELSE LET exact == exactLoop(ls, n, frame, throwers, acts)
         IN  IF Threw(exact.invs) THEN exact
             ELSE LET wild == wildcardLoop(exact.ls, n, frame, throwers, acts)
                  IN  [invs |-> exact.invs \o wild.invs, ls |-> wild.ls]

\* The handler's try block is left by an exception: JSON.parse rejects the
\* frame, the type names an inherited member, or a callback throws.
Raised(frame, invs) ==
    frame.kind = "malformed" \/ frame.type \in Inherited \/ Threw(invs)

\* A catch block that treats the exception as a failure of the source.
catchBlock_Reconnects(s, es) == onerror(s, es)

\* catch (error) { console.error(...) }: the exception ends here, the
\* handler of source es returns normally and touches nothing.
catchBlock(s, es) == s

\* eventSource.onmessage handing its callbacks the frame before this one.
onmessage_Stale(ls, n, frame, throwers, acts) ==
    dispatch(ls, n - 1, frame, throwers, acts)

\* eventSource.onmessage(event): the callbacks run synchronously inside
\* the handler and are handed what was decoded from this very event.
onmessage(ls, n, frame, throwers, acts) ==
    dispatch(ls, n, frame, throwers, acts)

\* The history of removals once the callbacks invoked made their calls.
RECURSIVE unregister(_, _)
unregister(rm, calls) ==
    IF calls = <<>> THEN rm
    ELSE unregister(IF Head(calls).op = "off"
                    THEN rm \cup {<<Head(calls).key, Head(calls).cb>>}
                    ELSE rm \ {<<Head(calls).key, Head(calls).cb>>},
                    Tail(calls))

RECURSIVE Unregistered(_, _, _)
Unregistered(rm, invs, acts) ==
    IF invs = <<>> THEN rm
    ELSE Unregistered(IF Head(invs).threw THEN rm
                      ELSE unregister(rm, ActsOf(acts, Head(invs).cb)),
                      Tail(invs), acts)

\* The frames each callback has seen once the invocations invs are made.
Observe(sn, invs) ==
    [c \in Callbacks |->
        sn[c] \cup {invs[i].frame : i \in {j \in DOMAIN invs : invs[j].cb = c}}]

\* ---------------------------------------------------------------- views
\* The routes of App render one view at a time; a path with no Route
\* (the Register link) renders none.
Views  == {"Dashboard", "EmployeeList", "AttendanceView"}
NoView == "none"

\* new Date().toISOString().split('T')[0], and one other day.
Today    == "today"
Dates    == {Today, "yesterday"}
Tabs     == {"daily", "logs", "anomalies"}
Statuses == {"active", "inactive", ""}
Searches == {"", "ann"}

NoParams == [view |-> NoView]

\* The useState initial values of each view.
InitialParams(view) ==
    CASE view = "Dashboard"      -> [selectedDate |-> Today]
      [] view = "EmployeeList"   -> [statusFilter |-> "active",
                                     searchTerm |-> ""]
      [] view = "AttendanceView" -> [activeTab |-> "daily",
                                     selectedDate |-> Today]
      [] OTHER                   -> NoParams

\* The values the setters of each view can store.
ParamSpace(view) ==
    CASE view = "Dashboard"      -> [selectedDate : Dates]
      [] view = "EmployeeList"   -> [statusFilter : Statuses,
                                     searchTerm : Searches]
      [] view = "AttendanceView" -> [activeTab : Tabs, selectedDate : Dates]
      [] OTHER                   -> {NoParams}

FieldValues(field) ==
    CASE field = "selectedDate" -> Dates
      [] field = "activeTab"    -> Tabs
      [] field = "statusFilter" -> Statuses
      [] field = "searchTerm"   -> Searches
      [] OTHER                  -> {}

\* The dependency array of the effect that subscribes.
Deps(view) ==
    CASE view = "Dashboard"      -> {}
      [] view = "EmployeeList"   -> {"statusFilter"}
      [] view = "AttendanceView" -> {"activeTab", "selectedDate"}
      [] OTHER                   -> {}

\* The handlers each view's effect defines, in the order it passes them
\* to on(); readsData: the handler dereferences its argument.
ViewHandlers(view) ==
    CASE view = "Dashboard" ->
           <<[handler |-> "handleScan", key |-> "attendance_scan",
              readsData |-> TRUE],
             [handler |-> "handleEmployeeAdded", key |-> "employee_added",
              readsData |-> TRUE],
             [handler |-> "handleEmployeeDeleted",
              key |-> "employee_deleted", readsData |-> FALSE]>>
      [] view = "EmployeeList" ->
           <<[handler |-> "handleEmployeeAdded", key |-> "employee_added",
              readsData |-> TRUE],
             [handler |-> "handleEmployeeDeleted",
              key |-> "employee_deleted", readsData |-> FALSE]>>
      [] view = "AttendanceView" ->
           <<[handler |-> "handleAttendanceScan",
              key |-> "attendance_scan", readsData |-> TRUE],
             [handler |-> "handleManualCheckout",
              key |-> "manual_checkout", readsData |-> FALSE]>>
      [] OTHER -> <<>>

\* A handler is a new function object each time the effect runs; it is
\* identified by the view, its name and the state the effect ran with.
EnvName(view, env) ==
    CASE view = "Dashboard"      -> env.selectedDate
      [] view = "EmployeeList"   -> env.statusFilter \o "," \o env.searchTerm
      [] view = "AttendanceView" -> env.activeTab \o "," \o env.selectedDate
      [] OTHER                   -> ""

CallbackName(view, handler, env) ==
    view \o "." \o handler \o "(" \o EnvName(view, env) \o ")"

Closure(view, h, env) ==
    [name |-> CallbackName(view, h.handler, env), view |-> view,
     handler |-> h.handler, readsData |-> h.readsData, env |-> env]

Closures ==
    UNION {{Closure(view, ViewHandlers(view)[i], env) :
                i \in DOMAIN ViewHandlers(view), env \in ParamSpace(view)} :
           view \in Views}

ClosureOf(name) == CHOOSE c \in Closures : c.name = name

ViewCallbacks == {c.name : c \in Closures}

CallbacksOf(view) == {c.name : c \in {x \in Closures : x.view = view}}

\* The APIs whose responses each view renders.
OwnApis(view) ==
    CASE view = "Dashboard" ->
           {"dashboardAPI.getStats", "attendanceAPI.getDaily"}
      [] view = "EmployeeList" -> {"employeeAPI.getAll"}
      [] view = "AttendanceView" ->
           {"attendanceAPI.getDaily", "attendanceAPI.getLogs",
            "attendanceAPI.getAnomalies"}
      [] OTHER -> {}

\* The handlers that throw when the event carries no data field.
DataReaders == {c.name : c \in {x \in Closures : x.readsData}}

\* An API request: the api called, the view state passed to it, and
\* what issued it: "effect", or the event handler, by its name.
Request(api, env, used, cause) ==
    [api |-> api, args |-> [f \in used |-> env[f]], cause |-> cause]

\* Dashboard: fetchStats() and fetchDateAttendance(selectedDate).
fetchStats(env, cause) ==
    <<Request("dashboardAPI.getStats", env, {}, cause)>>

fetchDateAttendance(env, cause) ==
    <<Request("attendanceAPI.getDaily", env, {"selectedDate"}, cause)>>

\* AttendanceView: fetchData(), by the active tab.
fetchData(env, cause) ==
    CASE env.activeTab = "daily" ->
           <<Request("attendanceAPI.getDaily", env, {"selectedDate"}, cause)>>
      [] env.activeTab = "logs" ->
           <<Request("attendanceAPI.getLogs", env, {}, cause)>>
      [] env.activeTab = "anomalies" ->
           <<Request("attendanceAPI.getAnomalies", env, {"selectedDate"},
                     cause)>>
      [] OTHER -> <<>>

\* EmployeeList: fetchEmployees().
fetchEmployees(env, cause) ==
    <<Request("employeeAPI.getAll", env, {"statusFilter", "searchTerm"},
              cause)>>

\* Every handler requesting the dashboard's stats.
Handle_StatsOnly(c) == fetchStats(c.env, c.name)

\* The requests a handler issues when it runs to its end; env is the
\* scope it closes over.  Dashboard's handleScan re-fetches the day only
\* when the date in its scope is today.
Handle(c) ==
    CASE c.view = "Dashboard" /\ c.handler = "handleScan" ->
           fetchStats(c.env, c.name)
             \o (IF c.env.selectedDate = Today
                 THEN fetchDateAttendance(c.env, c.name) ELSE <<>>)
      [] c.view = "Dashboard" /\ c.handler # "handleScan" ->
           fetchStats(c.env, c.name)
      [] c.view = "EmployeeList"   -> fetchEmployees(c.env, c.name)
      [] c.view = "AttendanceView" -> fetchData(c.env, c.name)
      [] OTHER -> <<>>

\* The requests the invocations invs issue: a handler that threw had not
\* reached its fetch.
RECURSIVE Refetch(_)
Refetch(invs) ==
    IF invs = <<>> THEN <<>>
    ELSE (IF Head(invs).cb \in ViewCallbacks /\ ~Head(invs).threw
          THEN Handle(ClosureOf(Head(invs).cb)) ELSE <<>>)
            \o Refetch(Tail(invs))

\* The on() calls of the subscribing effect of view, run with state env.
RECURSIVE subscribe(_, _, _, _)
subscribe(ls, view, hs, env) ==
    IF hs = <<>> THEN ls
    ELSE subscribe(on(ls, Head(hs).key,
                      CallbackName(view, Head(hs).handler, env)),
                   view, Tail(hs), env)

RECURSIVE cleanup(_, _, _, _)
\* The cleanup with its first off() call only.
cleanup_FirstOnly(ls, view, hs, env) ==
    IF hs = <<>> THEN ls
    ELSE off(ls, Head(hs).key, CallbackName(view, Head(hs).handler, env))

\* The cleanup the effect returned: off() for each handler of its scope.
cleanup(ls, view, hs, env) ==
    IF hs = <<>> THEN ls
    ELSE cleanup(off(ls, Head(hs).key,
                     CallbackName(view, Head(hs).handler, env)),
                 view, Tail(hs), env)

NoRequest == [api |-> "none"]

\* Requests whose caller waits for the response before it returns.
issue_Awaited(fl, reqs) == fl

\* The fetch functions are async and their callers do not await them:
\* the requests reqs are outstanding when the caller returns.
issue(fl, reqs) ==
    fl \cup {[api |-> reqs[i].api, args |-> reqs[i].args,
              cause |-> reqs[i].cause, mounted |-> TRUE] : i \in DOMAIN reqs}

\* The mounted component unmounts: nothing aborts its requests.
abandon(fl) == {[r EXCEPT !.mounted = FALSE] : r \in fl}

\* A catch block that gives up the view's subscriptions.
fetchFailed_Unsubscribes(ls, req) == [k \in DOMAIN ls |-> <<>>]

\* The catch block of a fetch function: it logs, and EmployeeList shows
\* a toast; the registry is not touched.
fetchFailed(ls, req) == ls

\* The code after the await of a fetch function: the response goes to
\* the component's state setter whenever the request was fulfilled; no
\* fetch function tests whether its component is still mounted.
applies(req, ok) == ok

\* Every API a view calls.
Apis == UNION {OwnApis(view) : view \in Views}

\* The state of a component that has just mounted holds no response.
NoData == [api \in Apis |-> NoRequest]

\* setStats, setDateAttendance, setDailyAttendance, setLogs, setAnomalies,
\* setEmployees: the response replaces what the state held, whichever
\* request it answers; React drops the update of an unmounted component.
store(d, req, applied) ==
    IF applied /\ req.mounted
    THEN [d EXCEPT ![req.api] = req.args] ELSE d

\* A cleanup that ends with eventService.disconnect().
teardown_Disconnects(s, view) == disconnect(s)

\* What a view's cleanup does to the transport: it makes no call on it.
teardown(s, view) == s

\* The requests the subscribing effect of view issues before it connects.
EffectFetches(view, env) ==
    CASE view = "Dashboard" ->
           fetchStats(env, "effect") \o fetchDateAttendance(env, "effect")
      [] view = "EmployeeList"   -> fetchEmployees(env, "effect")
      [] view = "AttendanceView" -> fetchData(env, "effect")
      [] OTHER -> <<>>

\* The requests of the view's other effects: Dashboard re-fetches the day
\* in an effect of its own, which depends on selectedDate.
OtherEffectFetches(view, env, changed) ==
    IF view = "Dashboard" /\ "selectedDate" \in changed
    THEN fetchDateAttendance(env, "effect")
    ELSE <<>>

\* The event types the handlers of view are registered for.
Subscribes(view) ==
    {ViewHandlers(view)[i].key : i \in DOMAIN ViewHandlers(view)}

\* The frame is an event the mounted view's data depends on.
Awaited(view, frame) ==
    frame.kind = "event" /\ frame.type \in Subscribes(view)

\* ----------------------------------------------------------------- Init
Init ==
    /\ eventSource = NULL
    /\ sources = <<>>
    /\ timers = <<>>
    /\ listeners = [k \in Keys |-> <<>>]
    /\ received = 0
    /\ lastFrame = NoFrame
    /\ delivered = <<>>
    /\ seen = [c \in Callbacks |-> {}]
    /\ removed = {}
    /\ afterDisconnect = FALSE
    /\ faulted = FALSE
    /\ offThrew = FALSE
    /\ route = NoView
    /\ params = NoParams
    /\ captured = NoParams
    /\ fetched = <<>>
    /\ connected = FALSE
    /\ stale = FALSE
    /\ inflight = {}
    /\ settled = NoRequest
    /\ data = NoData

\* useState(false): the connected state of a view that has just mounted,
\* and of no view.
useState == FALSE

\* setConnected(true), which the subscribing effect calls in the statement
\* after eventService.connect(): the state it stores, given the state
\* before and the sources as connect() left them.
setConnected(before, srcs) == TRUE

SetTransport(s) ==
    /\ eventSource' = s.eventSource
    /\ sources' = s.sources
    /\ timers' = s.timers

\* Whether the source this.eventSource names after the step has had an
\* error: a step that constructs a source, or forgets the current one,
\* starts afresh.
FaultedAfter == IF eventSource' = eventSource THEN faulted ELSE FALSE

\* -------------------------------------------------------------- actions
\* A view, or any other caller, calls eventService.connect(baseURL).
CallConnect(baseURL) ==
    /\ Len(sources) < MaxSources
    /\ SetTransport(connect(svc, baseURL))
    /\ afterDisconnect' = FALSE
    /\ faulted' = FaultedAfter
    /\ UNCHANGED <<listeners, received, lastFrame, delivered, seen,
                   removed, viewVars, fetchVars, offThrew>>

\* A caller calls eventService.disconnect().
CallDisconnect ==
    /\ SetTransport(disconnect(svc))
    /\ listeners' = disconnectListeners(listeners)
    /\ afterDisconnect' = TRUE
    /\ faulted' = FaultedAfter
    /\ UNCHANGED <<received, lastFrame, delivered, seen,
                   removed, viewVars, fetchVars, offThrew>>

\* The browser reports source es open; onopen only logs.
FireOpen(es) ==
    /\ es \in 1..Len(sources)
    /\ sources[es].readyState = "CONNECTING"
    /\ sources' = [sources EXCEPT ![es].readyState = "OPEN"]
    /\ UNCHANGED <<eventSource, timers, listeners, received, lastFrame,
                   delivered, seen, removed, afterDisconnect, faulted,
                   viewVars, fetchVars, offThrew>>

\* The browser reports an error on source es and runs its onerror.
FireError(es, fatal) ==
    /\ es \in 1..Len(sources)
    /\ sources[es].readyState # "CLOSED"
    /\ Len(timers) < MaxTimers
    /\ SetTransport(onerror(browserError(svc, es, fatal), es))
    /\ faulted' = (faulted \/ es = eventSource)
    /\ UNCHANGED <<listeners, received, lastFrame, delivered, seen,
                   removed, afterDisconnect,
                   viewVars, fetchVars, offThrew>>

\* The oldest pending timer fires and runs its callback.
FireTimeout ==
    /\ timers # <<>>
    /\ Len(sources) < MaxSources
    /\ SetTransport(timeoutCallback([svc EXCEPT !.timers = Tail(@)],
                                    Head(timers)))
    /\ listeners' = disconnectListeners(listeners)
    /\ faulted' = FaultedAfter
    /\ UNCHANGED <<received, lastFrame, delivered, seen,
                   removed, afterDisconnect,
                   viewVars, fetchVars, offThrew>>

\* A frame arrives on the open source es and its onmessage runs; throwers
\* are the callbacks that throw when called with this event and acts the
\* calls of on/off the others make while they run; the view handlers
\* among the callbacks issue their requests, which the model follows to
\* their settlement when follow is set.
FireMessage(es, frame, throwers, acts, follow) ==
    /\ es \in 1..Len(sources)
    /\ sources[es].readyState = "OPEN"
    /\ received < MaxFrames
    /\ received' = received + 1
    /\ lastFrame' = frame
    /\ LET ran == onmessage(listeners, received + 1, frame, throwers, acts)
       IN  /\ delivered' = ran.invs
           /\ listeners' = ran.ls
    /\ seen' = Observe(seen, delivered')
    /\ removed' = Unregistered(removed, delivered', acts)
    /\ fetched' = Refetch(delivered')
    /\ stale' = IF Awaited(route, frame) THEN fetched' = <<>>
                ELSE stale /\ fetched' = <<>>
    /\ inflight' = IF follow THEN issue(inflight, fetched') ELSE inflight
    /\ Cardinality(inflight') <= MaxPending
    /\ settled' = settled
    /\ SetTransport(IF Raised(frame, delivered') THEN catchBlock(svc, es)
                    ELSE svc)
    /\ UNCHANGED <<afterDisconnect, faulted, offThrew, route, params,
                   captured, connected, data>>

\* A caller calls eventService.on(eventType, callback).
CallOn(eventType, callback) ==
    /\ Registered(listeners) < MaxListeners
    /\ listeners' = on(listeners, eventType, callback)
    /\ removed' = IF eventType \in Inherited THEN removed
                  ELSE removed \ {<<eventType, callback>>}
    /\ UNCHANGED <<eventSource, sources, timers, received, lastFrame,
                   delivered, seen, afterDisconnect, faulted,
                   viewVars, fetchVars, offThrew>>

\* A caller calls eventService.off(eventType, callback).
CallOff(eventType, callback) ==
    /\ listeners' = off(listeners, eventType, callback)
    /\ offThrew' = offThrows(listeners, eventType)
    /\ removed' = IF eventType \in Inherited THEN removed
                  ELSE removed \cup {<<eventType, callback>>}
    /\ UNCHANGED <<eventSource, sources, timers, received, lastFrame,
                   delivered, seen, afterDisconnect, faulted, viewVars,
                   fetchVars>>

\* The router mounts view in place of the mounted one: the old view's
\* cleanup runs, then the new view's effects with its initial state.
Navigate(view, follow) ==
    /\ view # route
    /\ eventSource # NULL \/ Len(sources) < MaxSources
    /\ route' = view
    /\ params' = InitialParams(view)
    /\ captured' = params'
    /\ listeners' = subscribe(cleanup(listeners, route, ViewHandlers(route),
                                      captured),
                              view, ViewHandlers(view), params')
    /\ fetched' = EffectFetches(view, params')
                     \o OtherEffectFetches(view, params', DOMAIN params')
    /\ inflight' = IF follow THEN issue(abandon(inflight), fetched')
                   ELSE abandon(inflight)
    /\ Cardinality(inflight') <= MaxPending
    /\ settled' = settled
    /\ IF view \in Views
       THEN /\ SetTransport(connect(teardown(svc, route), DefaultURL))
            /\ connected' = setConnected(useState, sources')
            /\ afterDisconnect' = FALSE
       ELSE /\ SetTransport(teardown(svc, route))
            /\ connected' = useState
            /\ UNCHANGED afterDisconnect
    /\ faulted' = FaultedAfter
    /\ data' = NoData
    /\ stale' = FALSE
    /\ UNCHANGED <<received, lastFrame, delivered, seen, removed,
                   offThrew>>

\* The user changes one piece of the mounted view's state.  When the
\* subscribing effect depends on it, the effect's cleanup runs and then
\* the effect again, with the new state; the other effects run when
\* they depend on it.
SetParam(field, value, follow) ==
    /\ route \in Views
    /\ field \in DOMAIN params
    /\ value \in FieldValues(field)
    /\ value # params[field]
    /\ eventSource # NULL \/ Len(sources) < MaxSources
    /\ params' = [params EXCEPT ![field] = value]
    /\ IF field \in Deps(route)
       THEN /\ captured' = params'
            /\ listeners' = subscribe(cleanup(listeners, route,
                                              ViewHandlers(route), captured),
                                      route, ViewHandlers(route), params')
            /\ fetched' = EffectFetches(route, params')
                             \o OtherEffectFetches(route, params', {field})
            /\ SetTransport(connect(teardown(svc, route), DefaultURL))
            /\ connected' = setConnected(connected, sources')
            /\ afterDisconnect' = FALSE
       ELSE /\ fetched' = OtherEffectFetches(route, params', {field})
            /\ UNCHANGED <<captured, listeners, eventSource, sources,
                           timers, afterDisconnect, connected>>
    /\ faulted' = FaultedAfter
    /\ inflight' = IF follow THEN issue(inflight, fetched') ELSE inflight
    /\ Cardinality(inflight') <= MaxPending
    /\ settled' = settled
    /\ stale' = (stale /\ fetched' = <<>>)
    /\ UNCHANGED <<route, received, lastFrame, delivered, seen, removed,
                   offThrew, data>>

\* The promise of the outstanding request req settles.  Fulfilled: the
\* code after the await runs.
\* Rejected (an error status, or axios' 10 s timeout): the interceptor
\* shows a toast and the catch block runs.
Settle(req, ok) ==
    /\ req \in inflight
    /\ inflight' = inflight \ {req}
    /\ settled' = [api |-> req.api, args |-> req.args, cause |-> req.cause,
                   mounted |-> req.mounted, ok |-> ok,
                   applied |-> applies(req, ok), after |-> received]
    /\ data' = store(data, req, settled'.applied)
    /\ listeners' = IF ok THEN listeners ELSE fetchFailed(listeners, req)
    /\ UNCHANGED <<eventSource, sources, timers, received, lastFrame,
                   delivered, seen, removed, afterDisconnect, faulted, offThrew,
                   viewVars>>

\* The server emits an event while no source is open: no onmessage runs,
\* and the source a later connect() constructs starts at the stream's
\* present, so the event reaches no callback.
ServerEmits(frame) ==
    /\ \A es \in 1..Len(sources) : sources[es].readyState # "OPEN"
    /\ stale' = (stale \/ Awaited(route, frame))
    /\ UNCHANGED <<eventSource, sources, timers, listeners, received,
                   lastFrame, delivered, seen, removed, afterDisconnect,
                   offThrew, faulted, route, params, captured, fetched,
                   connected, fetchVars>>

\* An error while the server is still failing: the server fails finitely
\* often, so that every timer scheduled can construct its source.
ServerFails(es, fatal) ==
    /\ Len(sources) + Len(timers) < MaxSources
    /\ FireError(es, fatal)

\* The registry is followed as long as a frame can still arrive: after
\* the last frame of a run no dispatch shows what a call of on/off did.
FramesToCome == received < MaxFrames

\* The callbacks a frame can reach: those registered under its type or
\* under the wildcard.  Whether any other callback would throw, or what
\* it would do while it runs, changes nothing.
Hearers(frame) ==
    IF frame.kind = "event" /\ frame.type \notin Inherited
    THEN {listeners[frame.type][i] : i \in DOMAIN listeners[frame.type]}
            \cup {listeners[Wildcard][i] : i \in DOMAIN listeners[Wildcard]}
    ELSE {}

\* The transport's steps: calls of connect/disconnect and browser events.
TransportNext ==
    \/ \E baseURL \in URLs : CallConnect(baseURL)
    \/ CallDisconnect
    \/ \E es \in 1..MaxSources : FireOpen(es)
    \/ \E es \in 1..MaxSources, fatal \in BOOLEAN : FireError(es, fatal)
    \/ FireTimeout

\* The router's steps: calls of on/off and frames arriving.
RouterNext ==
    \/ \E es \in 1..MaxSources, frame \in Frames :
          \E throwers \in SUBSET Hearers(frame) :
             FireMessage(es, frame, throwers, NoActs, FALSE)
    \/ \E eventType \in SubscribedKeys, callback \in Callbacks :
          FramesToCome /\ CallOn(eventType, callback)
    \/ \E eventType \in SubscribedKeys, callback \in Callbacks :
          FramesToCome /\ CallOff(eventType, callback)

\* The connection is opened once and stays up.
StableNext ==
    \/ CallConnect(DefaultURL)
    \/ \E es \in 1..MaxSources : FireOpen(es)

\* Frames and subscriptions over a connection that fails and reconnects.
StreamNext ==
    \/ CallConnect(DefaultURL)
    \/ CallDisconnect
    \/ \E es \in 1..MaxSources : FireOpen(es)
    \/ \E es \in 1..MaxSources, fatal \in BOOLEAN : FireError(es, fatal)
    \/ FireTimeout
    \/ \E es \in 1..MaxSources, frame \in Frames :
          \E throwers \in SUBSET Hearers(frame) :
             FireMessage(es, frame, throwers, NoActs, FALSE)
    \/ \E eventType \in SubscribedKeys, callback \in Callbacks :
          FramesToCome /\ CallOn(eventType, callback)

\* The connection under a server that fails and then accepts, frames
\* arriving while a source is open, with no call of disconnect().
LiveNext ==
    \/ \E baseURL \in URLs : CallConnect(baseURL)
    \/ \E es \in 1..MaxSources : FireOpen(es)
    \/ \E es \in 1..MaxSources, fatal \in BOOLEAN : ServerFails(es, fatal)
    \/ FireTimeout
    \/ \E es \in 1..MaxSources, frame \in Frames :
          FireMessage(es, frame, {}, NoActs, FALSE)

\* What a subscriber callback may do while it runs: nothing, or one call
\* of off() for itself or for another callback.
OffCalls == {<<>>} \cup {<<[op |-> "off", key |-> k, cb |-> c]>> :
                            k \in {"attendance_scan", Wildcard},
                            c \in Callbacks}

\* Well-formed events: one of a type with subscribers of its own, one
\* that only wildcard subscribers receive.
ReentrantFrames == {[kind |-> "event", type |-> t] :
                       t \in {"attendance_scan", "employee_added"}}

\* Dispatch to callbacks that unsubscribe, or throw, while they run: the
\* subscriptions are made before the first frame arrives and are given
\* up, if at all, from inside a dispatch.
ReentrantNext ==
    \/ CallConnect(DefaultURL)
    \/ \E es \in 1..MaxSources : FireOpen(es)
    \/ \E eventType \in SubscribedKeys, callback \in Callbacks :
          received = 0 /\ CallOn(eventType, callback)
    \/ \E es \in 1..MaxSources, frame \in ReentrantFrames :
          \E throwers \in SUBSET Hearers(frame) :
             \E acts \in [Hearers(frame) \ throwers -> OffCalls] :
                FireMessage(es, frame, throwers, acts, FALSE)

\* What a subscriber callback may do while it runs: nothing, or one call
\* of on() that registers a callback for a type or under the wildcard.
OnCalls == {<<>>} \cup {<<[op |-> "on", key |-> k, cb |-> c]>> :
                           k \in {"attendance_scan", Wildcard},
                           c \in Callbacks}

\* Dispatch to callbacks that subscribe, or throw, while they run; the
\* registry holds MaxListeners registrations at most.
SubscribingNext ==
    \/ CallConnect(DefaultURL)
    \/ \E es \in 1..MaxSources : FireOpen(es)
    \/ \E eventType \in SubscribedKeys, callback \in Callbacks :
          received = 0 /\ CallOn(eventType, callback)
    \/ \E es \in 1..MaxSources, frame \in ReentrantFrames :
          \E throwers \in SUBSET Hearers(frame) :
             \E acts \in [Hearers(frame) \ throwers -> OnCalls] :
                /\ FireMessage(es, frame, throwers, acts, FALSE)
                /\ Registered(listeners') <= MaxListeners

\* The frames the server sends for the views.
ViewFrames == {[kind |-> "event", type |-> t] : t \in EventTypes}

\* The frames that make a mounted view fetch again.
FetchFrames == {[kind |-> "event", type |-> t] :
                   t \in {"attendance_scan", "manual_checkout"}}

\* The views and their requests over a connection that does not fail:
\* the user moves between views and picks dates, frames arrive, and the
\* outstanding requests settle in any order; the server fulfils those
\* of the effects and fulfils or rejects those of the event handlers.
FetchNext ==
    \/ \E view \in Views \cup {NoView} : Navigate(view, TRUE)
    \/ \E value \in Dates : SetParam("selectedDate", value, TRUE)
    \/ \E es \in 1..MaxSources : FireOpen(es)
    \/ \E es \in 1..MaxSources, frame \in FetchFrames :
          FireMessage(es, frame, {}, NoActs, TRUE)
    \/ \E req \in inflight, ok \in BOOLEAN :
          (ok \/ req.cause # "effect") /\ Settle(req, ok)

\* The views while the server emits events, to an open source or into
\* the void, and the connection fails and is re-established.
RefreshNext ==
    \/ \E view \in Views \cup {NoView} : Navigate(view, FALSE)
    \/ \E es \in 1..MaxSources : FireOpen(es)
    \/ \E es \in 1..MaxSources, fatal \in BOOLEAN : ServerFails(es, fatal)
    \/ FireTimeout
    \/ \E es \in 1..MaxSources, frame \in ViewFrames :
          FireMessage(es, frame, {}, NoActs, FALSE)
    \/ \E frame \in ViewFrames : ServerEmits(frame)

\* The views over a connection that fails and reconnects, no frame
\* arriving.
MountNext ==
    \/ \E view \in Views \cup {NoView} : Navigate(view, FALSE)
    \/ \E field \in {"selectedDate", "activeTab", "statusFilter",
                     "searchTerm"},
          value \in Dates \cup Tabs \cup Statuses \cup Searches :
          SetParam(field, value, FALSE)
    \/ \E es \in 1..MaxSources : FireOpen(es)
    \/ \E es \in 1..MaxSources, fatal \in BOOLEAN : FireError(es, fatal)
    \/ FireTimeout

\* The views' steps: navigation, state changes, and frames arriving over
\* the connection the first mounted view opened; an event either carries
\* its data or makes every handler that reads it throw.
ViewNext ==
    \/ \E view \in Views \cup {NoView} : Navigate(view, FALSE)
    \/ \E field \in {"selectedDate", "activeTab", "statusFilter",
                     "searchTerm"},
          value \in Dates \cup Tabs \cup Statuses \cup Searches :
          SetParam(field, value, FALSE)
    \/ \E es \in 1..MaxSources : FireOpen(es)
    \/ \E es \in 1..MaxSources, frame \in ViewFrames,
          throwers \in {{}, DataReaders} :
             FireMessage(es, frame, throwers, NoActs, FALSE)

Next == TransportNext \/ RouterNext \/ ViewNext \/ FetchNext

\* Every step of the service and of the browser.
Spec == Init /\ [][Next]_vars

\* The connection lifecycle alone: no subscriber, no frame.
SpecTransport == Init /\ [][TransportNext]_vars

\* The registry and dispatch over a connection that does not fail.
SpecRouter == Init /\ [][StableNext \/ RouterNext]_vars

\* Dispatch over a failing connection, subscriptions only ever added.
SpecStream == Init /\ [][StreamNext]_vars

\* Reconnection: a pending timer fires after its 3 s, and a server that
\* accepts opens the source that is connecting.
SpecLive ==
    /\ Init
    /\ [][LiveNext]_vars
    /\ WF_vars(FireTimeout)
    /\ WF_vars(\E es \in 1..MaxSources : FireOpen(es))

\* The views' data while the connection fails and recovers: a pending
\* timer fires after its 3 s, and a server that accepts opens the source
\* that is connecting; neither the server nor the user owes a further
\* event or click.
SpecRefresh ==
    /\ Init
    /\ [][RefreshNext]_vars
    /\ WF_vars(FireTimeout)
    /\ WF_vars(\E es \in 1..MaxSources : FireOpen(es))

\* The registry under callbacks that call off() from inside a dispatch.
SpecReentrant == Init /\ [][ReentrantNext]_vars

\* The registry under callbacks that call on() from inside a dispatch.
SpecSubscribing == Init /\ [][SubscribingNext]_vars

\* The views' requests: issued, outstanding, settled in any order.
SpecFetch == Init /\ [][FetchNext]_vars

\* The views' effects and cleanups against the connection lifecycle.
SpecMounts == Init /\ [][MountNext]_vars

\* The views over a connection that does not fail.
SpecViews == Init /\ [][ViewNext]_vars

\* ------------------------------------------------- properties: helpers
\* The step is one run of onmessage.
IsDispatch == received' = received + 1

\* How many times callback c stands in the array arr.
Occ(arr, c) == Cardinality({i \in DOMAIN arr : arr[i] = c})

\* How many of the invocations invs call c with argument shape arg
\* ("payload": the exact-match loop, "envelope": the wildcard loop).
Calls(invs, arg, c) ==
    Cardinality({i \in DOMAIN invs : invs[i].cb = c /\ invs[i].arg = arg})

Open == {i \in DOMAIN sources : sources[i].readyState # "CLOSED"}

\* ------------------------------------------------------------------ C1
\* C1: in every reachable state at most one EventSource that is not
\* closed exists, whatever the interleaving of connect() calls, error
\* signals and timer firings.
C1_AtMostOneConnection == Cardinality(Open) <= 1

\* A reconnection has replaced a failed source, the replacement is live
\* and another timer is already pending.
C1_Witness ==
    /\ Len(sources) >= 2
    /\ eventSource # NULL
    /\ Open = {eventSource}
    /\ timers # <<>>

\* ------------------------------------------------------------------ C2
\* C2: at no time is more than one reconnection timer pending, however
\* many error signals the transport raises before the timer fires.
C2_AtMostOneTimer == Len(timers) <= 1

\* ------------------------------------------------------------------ C3
\* C3: after disconnect() has returned, and until connect() is called
\* again, no reconnection timer is pending and no connection exists.
C3_DisconnectIsFinal ==
    afterDisconnect => (timers = <<>> /\ eventSource = NULL /\ Open = {})

\* ------------------------------------------------------------------ C4
\* C4: when a callback throws during the dispatch of an event, every
\* exact-match subscriber and every wildcard subscriber is still invoked
\* for that event.
C4_ThrowDoesNotStopDispatch ==
    [][(IsDispatch /\ \E i \in DOMAIN delivered' : delivered'[i].threw)
        => \A c \in Callbacks :
              /\ Calls(delivered', "payload", c)
                    = Occ(listeners[lastFrame'.type], c)
              /\ Calls(delivered', "envelope", c)
                    = Occ(listeners[Wildcard], c)]_vars

\* ------------------------------------------------------------------ C5
\* C5: a frame that fails to decode invokes no callback and leaves the
\* connection, the timers and the registry as they were; the well-formed
\* frame that follows it is dispatched, starting with the first matching
\* subscriber.
C5_MalformedFrameIsDiscarded ==
    [][/\ (IsDispatch /\ lastFrame'.kind = "malformed")
            => /\ delivered' = <<>>
               /\ UNCHANGED <<eventSource, sources, timers, listeners>>
       /\ (/\ IsDispatch
           /\ lastFrame.kind = "malformed"
           /\ lastFrame'.kind = "event"
           /\ lastFrame'.type \notin Inherited)
            => LET matching == listeners[lastFrame'.type]
                                   \o listeners[Wildcard]
               IN  matching # <<>>
                     => /\ delivered' # <<>>
                        /\ delivered'[1].cb = Head(matching)]_vars

\* A malformed frame has just been handled while subscribers were
\* registered: nothing was delivered and the source is still open.
C5_Witness ==
    /\ lastFrame.kind = "malformed"
    /\ delivered = <<>>
    /\ listeners[Wildcard] # <<>>
    /\ eventSource # NULL
    /\ sources[eventSource].readyState = "OPEN"

\* ------------------------------------------------------------------ C6
\* C6: a dispatch never invokes, through the list of key k, a callback
\* that off(k, callback) removed before the dispatch began and that has
\* not been registered under k again.
C6_NoDeliveryAfterOff ==
    [][IsDispatch
        => \A i \in DOMAIN delivered' :
              <<delivered'[i].key, delivered'[i].cb>> \notin removed]_vars

\* c was registered under k only, saw frame 1 and was removed; frame 2,
\* of a type k matches, reached d, still registered under k, and not c.
C6_Witness ==
    \E k \in Keys, c \in Callbacks, d \in Callbacks :
        /\ c # d
        /\ removed = {<<k, c>>}
        /\ \A kk \in Keys : Occ(listeners[kk], c) = 0
        /\ received = 2
        /\ seen[c] = {1}
        /\ lastFrame.kind = "event"
        /\ k \in {lastFrame.type, Wildcard}
        /\ \E i \in DOMAIN delivered :
              delivered[i].cb = d /\ delivered[i].key = k
        /\ \A i \in DOMAIN delivered : ~delivered[i].threw

\* ------------------------------------------------------------------ C7
\* C7: for every well-formed event, an exact-match invocation is made
\* only through the list of the event's own type, and every wildcard
\* subscriber is invoked.
C7_ExactAndWildcardMatching ==
    [][(IsDispatch /\ lastFrame'.kind = "event")
        => /\ \A i \in DOMAIN delivered' :
                 /\ delivered'[i].key \in {lastFrame'.type, Wildcard}
                 /\ Occ(listeners[delivered'[i].key], delivered'[i].cb) > 0
           /\ \A c \in Callbacks :
                 Occ(listeners[Wildcard], c) > 0
                     => Calls(delivered', "envelope", c) > 0]_vars

\* ------------------------------------------------------------------ C8
\* C8: every invocation a run of onmessage makes is for the frame that
\* run received, and that frame is newer than every frame the invoked
\* callback had seen before: each subscriber sees its events in arrival
\* order, none deferred or batched.
C8_ArrivalOrder ==
    [][IsDispatch
        => \A i \in DOMAIN delivered' :
              /\ delivered'[i].frame = received'
              /\ \A m \in seen[delivered'[i].cb] :
                    m < delivered'[i].frame]_vars

\* Some callback has been invoked for frame 1 and then for frame 2.
C8_Witness ==
    \E c \in Callbacks :
        /\ {1, 2} \subseteq seen[c]
        /\ \E i \in DOMAIN delivered :
              delivered[i].cb = c /\ delivered[i].frame = 2

\* ------------------------------------------------------------------ C9
\* C9: for every well-formed event, each registration that matches it
\* (exact or wildcard) has its callback invoked exactly once.
C9_ExactlyOncePerRegistration ==
    [][(IsDispatch /\ lastFrame'.kind = "event")
        => \A c \in Callbacks :
              /\ Calls(delivered', "payload", c)
                    = Occ(listeners[lastFrame'.type], c)
              /\ Calls(delivered', "envelope", c)
                    = Occ(listeners[Wildcard], c)]_vars

\* ----------------------------------------------------------------- C10
\* C10: when a callback is registered more than once under one key, no
\* single call removes more than one of these registrations.
C10_OffRemovesOneRegistration ==
    [][\A k \in Keys, c \in Callbacks :
          Occ(listeners[k], c) >= 2
              => Occ(listeners'[k], c) >= Occ(listeners[k], c) - 1]_vars

\* ----------------------------------------------------------------- C11
\* C11: when two different callbacks are registered for one event type, a
\* dispatch of that type invokes both; once one of them has been removed,
\* a dispatch of that type invokes the other one and not the removed one.
C11_TwoSubscribersIndependent ==
    [][(IsDispatch /\ lastFrame'.kind = "event"
                   /\ lastFrame'.type \in EventTypes)
        => \A c \in Callbacks, d \in Callbacks :
              LET t == lastFrame'.type
                  viaT(x) == \E i \in DOMAIN delivered' :
                                 /\ delivered'[i].cb = x
                                 /\ delivered'[i].arg = "payload"
              IN  c # d =>
                    /\ (Occ(listeners[t], c) > 0 /\ Occ(listeners[t], d) > 0)
                          => (viaT(c) /\ viaT(d))
                    /\ (<<t, c>> \in removed /\ Occ(listeners[t], d) > 0)
                          => (viaT(d) /\ ~viaT(c))]_vars

\* ----------------------------------------------------------------- C12
\* C12: every request an event handler issues during a dispatch carries
\* the values the view's state holds at that moment, whatever changes of
\* state came between the subscription and the delivery.
C12_RefetchUsesCurrentParams ==
    [][IsDispatch
        => \A i \in DOMAIN fetched' :
              \A f \in DOMAIN fetched'[i].args :
                  fetched'[i].args[f] = params[f]]_vars

\* ----------------------------------------------------------------- C13
\* C13: under every key the mounted view holds at most one callback, and
\* a view that is not mounted holds none.
C13_OneCallbackPerViewAndType ==
    \A view \in Views, k \in Keys :
        LET held == {i \in DOMAIN listeners[k] :
                        listeners[k][i] \in CallbacksOf(view)}
        IN  IF view = route THEN Cardinality(held) <= 1 ELSE held = {}

\* EmployeeList is mounted after another view was, its subscribing effect
\* has run again for a changed filter, and the one callback it holds under
\* employee_added is the one of that latest run.
C13_Witness ==
    /\ route = "EmployeeList"
    /\ captured.statusFilter # "active"
    /\ received >= 1
    /\ lastFrame.type = "manual_checkout"
    /\ listeners["employee_added"]
          = <<CallbackName(route, "handleEmployeeAdded", captured)>>

\* ----------------------------------------------------------------- C14
\* C14: while disconnect() is not called, every pending reconnection is
\* followed by the construction of a new source, and once connect() has
\* been called the current source is eventually open when the server
\* stops failing.
C14_ReconnectsUntilOpen ==
    /\ \A k \in 0..MaxSources :
          (timers # <<>> /\ Len(sources) = k) ~> (Len(sources) > k)
    /\ (eventSource # NULL)
          ~> (eventSource # NULL /\ sources[eventSource].readyState = "OPEN")

\* A source failed for good, its reconnection constructed a new one, and
\* that one is open with no timer left.
C14_Witness ==
    /\ Len(sources) >= 2
    /\ sources[1].readyState = "CLOSED"
    /\ eventSource = Len(sources)
    /\ sources[eventSource].readyState = "OPEN"
    /\ timers = <<>>

\* ----------------------------------------------------------------- C15
\* C15: the firing of a reconnection timer closes the failed source and
\* leaves a new source, connecting, as the only one not closed; a source
\* becomes open only from connecting, as the current source and the only
\* one not closed; at no step are two sources not closed.
C15_FailedConnectingOpen ==
    [][/\ (timers # <<>> /\ timers' = Tail(timers))
            => /\ Len(sources') = Len(sources) + 1
               /\ eventSource' = Len(sources')
               /\ sources'[eventSource'].readyState = "CONNECTING"
               /\ Open' = {eventSource'}
               /\ \A es \in DOMAIN sources :
                     sources'[es].readyState = "CLOSED"
       /\ \A es \in DOMAIN sources :
             (sources[es].readyState # "OPEN"
                 /\ sources'[es].readyState = "OPEN")
               => /\ sources[es].readyState = "CONNECTING"
                  /\ eventSource' = es
                  /\ Open' = {es}
       /\ Cardinality(Open') <= 1]_vars

\* The first source failed and was closed by the reconnection, whose
\* source, to the same URL, has opened.
C15_Witness ==
    /\ Len(sources) = 2
    /\ sources[1].readyState = "CLOSED"
    /\ eventSource = 2
    /\ sources[2].readyState = "OPEN"
    /\ sources[2].url = sources[1].url
    /\ ~afterDisconnect

\* ----------------------------------------------------------------- C16
\* C16: whenever the current source is open, no reconnection timer is
\* pending.
C16_NoTimerWhileOpen ==
    (eventSource # NULL /\ sources[eventSource].readyState = "OPEN")
        => timers = <<>>

\* ----------------------------------------------------------------- C17
\* C17: while a source is set, connect() with any URL returns the service
\* as it is - same source, no new source, same timers - and a step that
\* calls it in that state leaves the registry unchanged too.
C17_ConnectWhileConnectedIsNoOp ==
    /\ [](eventSource # NULL
             => \A baseURL \in URLs : connect(svc, baseURL) = svc)
    /\ [][(afterDisconnect /\ ~afterDisconnect' /\ eventSource # NULL)
             => UNCHANGED <<eventSource, sources, timers, listeners>>]_vars

\* connect() has been called, a subscriber is registered, and the open
\* source goes to the other URL than the one a further call would pass.
C17_Witness ==
    /\ ~afterDisconnect
    /\ eventSource # NULL
    /\ sources[eventSource].readyState = "OPEN"
    /\ sources[eventSource].url = DefaultURL
    /\ Registered(listeners) >= 1
    /\ connect(svc, OtherURL) = svc

\* ----------------------------------------------------------------- C18
\* C18: disconnect() with no source set returns the service as it is,
\* disconnect() twice gives what disconnect() once gives, and a step
\* that calls it leaves the registry unchanged.
C18_DisconnectIdempotent ==
    /\ [](/\ eventSource = NULL => disconnect(svc) = svc
          /\ disconnect(disconnect(svc)) = disconnect(svc))
    /\ [][(/\ afterDisconnect'
           /\ eventSource' = NULL
           /\ (~afterDisconnect \/ eventSource # NULL))
             => /\ listeners' = listeners
                /\ [eventSource |-> eventSource', sources |-> sources',
                    timers |-> timers'] = disconnect(svc)]_vars

\* disconnect() has closed an open source while subscribers were
\* registered and a frame had been dispatched.
C18_Witness ==
    /\ afterDisconnect
    /\ eventSource = NULL
    /\ Len(sources) >= 1
    /\ Open = {}
    /\ Registered(listeners) >= 1
    /\ received >= 1

\* ----------------------------------------------------------------- C19
\* C19: no call of off() ends in an exception, whether or not the
\* registration it names exists.
C19_OffRaisesNoError == ~offThrew

\* ----------------------------------------------------------------- C20
\* C20: the invocations of one dispatch are, in this order, the callbacks
\* of the event type's list in list order with the payload and then the
\* callbacks of the wildcard list in list order with the envelope: always
\* an initial part of that sequence, and all of it when no callback threw.
C20_ExactThenWildcardInOrder ==
    [][(IsDispatch /\ lastFrame'.kind = "event"
                   /\ lastFrame'.type \notin Inherited)
        => LET t == lastFrame'.type
               due == [i \in 1..(Len(listeners[t]) + Len(listeners[Wildcard]))
                         |-> IF i <= Len(listeners[t])
                             THEN <<t, "payload", listeners[t][i]>>
                             ELSE <<Wildcard, "envelope",
                                    listeners[Wildcard][i - Len(listeners[t])]>>]
               made == [i \in DOMAIN delivered'
                          |-> <<delivered'[i].key, delivered'[i].arg,
                                delivered'[i].cb>>]
           IN  /\ Len(made) <= Len(due)
               /\ \A i \in DOMAIN made : made[i] = due[i]
               /\ ~Threw(delivered') => Len(made) = Len(due)]_vars

\* A dispatch called two different callbacks, the exact-match one first
\* and the wildcard one second.
C20_Witness ==
    /\ Len(delivered) = 2
    /\ delivered[1].arg = "payload"
    /\ delivered[1].key = lastFrame.type
    /\ delivered[2].arg = "envelope"
    /\ delivered[2].key = Wildcard
    /\ delivered[1].cb # delivered[2].cb

\* ----------------------------------------------------------------- C21
\* C21: an event under whose type nothing is registered, and for which
\* no callback throws, invokes every wildcard subscriber, with the
\* envelope, and nothing else.
C21_UnmatchedTypeToWildcardOnly ==
    [][(/\ IsDispatch
        /\ lastFrame'.kind = "event"
        /\ listeners[lastFrame'.type] = <<>>
        /\ \A i \in DOMAIN delivered' : ~delivered'[i].threw)
        => /\ \A i \in DOMAIN delivered' :
                 /\ delivered'[i].key = Wildcard
                 /\ delivered'[i].arg = "envelope"
           /\ \A c \in Callbacks :
                 Calls(delivered', "envelope", c)
                     = Occ(listeners[Wildcard], c)]_vars

\* ----------------------------------------------------------------- C22
\* The requests of the step's dispatch that the callback named cb issued.
IssuedBy(cb) == {j \in DOMAIN fetched' : fetched'[j].cause = cb}

\* C22: every invocation of a view's callback issues exactly one
\* request, for data of the callback's own view.
C22_OneRefetchPerInvocation ==
    [][IsDispatch
        => \A i \in DOMAIN delivered' :
              delivered'[i].cb \in ViewCallbacks
                => /\ Cardinality(IssuedBy(delivered'[i].cb)) = 1
                   /\ \A j \in IssuedBy(delivered'[i].cb) :
                         fetched'[j].api
                            \in OwnApis(ClosureOf(delivered'[i].cb).view)]_vars

\* C22, amended: every invocation of a view's callback issues requests
\* for data of its own view only: none when it throws, two from
\* Dashboard's handleScan when the date in its scope is today - the stats
\* and that day's attendance - and one in every other case.
C22_RefetchOwnDataOnly ==
    [][IsDispatch
        => \A i \in DOMAIN delivered' :
              delivered'[i].cb \in ViewCallbacks
                => LET c == ClosureOf(delivered'[i].cb)
                       n == Cardinality(IssuedBy(c.name))
                   IN  /\ \A j \in IssuedBy(c.name) :
                             fetched'[j].api \in OwnApis(c.view)
                       /\ n = IF delivered'[i].threw THEN 0
                              ELSE IF /\ c.view = "Dashboard"
                                      /\ c.handler = "handleScan"
                                      /\ c.env.selectedDate = Today
                                   THEN 2
                                   ELSE 1]_vars

\* Dashboard's handleScan has just run for an attendance_scan event and
\* issued its two requests.
C22_Witness ==
    /\ route = "Dashboard"
    /\ lastFrame.type = "attendance_scan"
    /\ Len(delivered) = 1
    /\ ~delivered[1].threw
    /\ Len(fetched) = 2
    /\ fetched[1].api = "dashboardAPI.getStats"
    /\ fetched[2].api = "attendanceAPI.getDaily"
    /\ fetched[2].cause = delivered[1].cb

\* ----------------------------------------------------------------- C23
\* C23: a step that mounts a view, or changes a piece of the mounted
\* view's state, issues from the view's effects at least one request, no
\* request twice, and each with the values the state then holds.
C23_OneEagerFetch ==
    [][(route' \in Views /\ (route' # route \/ params' # params))
        => /\ fetched' # <<>>
           /\ \A i \in DOMAIN fetched' :
                 /\ fetched'[i].cause = "effect"
                 /\ \A f \in DOMAIN fetched'[i].args :
                       fetched'[i].args[f] = params'[f]
                 /\ \A j \in DOMAIN fetched' :
                       fetched'[j] = fetched'[i] => j = i]_vars

\* ----------------------------------------------------------------- C24
\* C24: a step that mounts or unmounts a view, or changes the mounted
\* view's state, while a source is set leaves the source, every source's
\* readyState and the timers as they were; and once a source has been
\* constructed one stays set, whether or not a view is mounted.
C24_ViewsNeverCloseConnection ==
    /\ [](sources # <<>> => eventSource # NULL)
    /\ [][((route' # route \/ params' # params) /\ eventSource # NULL)
             => UNCHANGED <<eventSource, sources, timers>>]_vars

\* Every view has unmounted, and the source the first mount constructed
\* is still the current one and open.
C24_Witness ==
    /\ route = NoView
    /\ Registered(listeners) = 0
    /\ fetched = <<>>
    /\ eventSource = 1
    /\ sources[1].readyState = "OPEN"
    /\ timers = <<>>

\* ----------------------------------------------------------------- C25
\* C25: with no transport failure, no source exists until a view has
\* mounted, and from then on exactly one exists, the current one, however
\* many mounts and changes of state follow.
C25_OneSharedLazyConnection ==
    /\ Len(sources) <= 1
    /\ sources = <<>> => (eventSource = NULL /\ route = NoView
                             /\ fetched = <<>>)
    /\ sources # <<>> => (eventSource = 1 /\ sources[1].url = DefaultURL)
    /\ route # NoView => sources # <<>>

\* A second view is mounted, has re-subscribed for a changed parameter
\* and has handled an event, all over the one source.
C25_Witness ==
    /\ route = "AttendanceView"
    /\ captured.activeTab = "logs"
    /\ received = 2
    /\ lastFrame.type = "manual_checkout"
    /\ Len(fetched) = 1
    /\ fetched[1].cause # "effect"
    /\ Len(sources) = 1
    /\ sources[1].readyState = "OPEN"


\* A request issued by an event handler, as opposed to an effect.
IsRefetch(r) == r.cause # "effect"

\* C26: the result of a re-fetch that completes after its view has
\* unmounted is not applied to the view's state: the request settled
\* last, when an event handler issued it and its view had unmounted by
\* then, did not reach a state setter.
C26_NoResultAppliedAfterUnmount ==
    (settled # NoRequest /\ IsRefetch(settled) /\ ~settled.mounted)
        => ~settled.applied


\* ----------------------------------------------------------------- C27
IsPrefix(a, b) == Len(a) <= Len(b) /\ a = SubSeq(b, 1, Len(a))

\* The callbacks, in order, that the invocations invs call through the
\* list of key k.
CalledVia(invs, k) ==
    LET via == SelectSeq(invs, LAMBDA v : v.key = k)
    IN  [i \in DOMAIN via |-> via[i].cb]

\* C27: when callbacks unsubscribe themselves or others during the
\* dispatch of an event, the subscribers that stay registered under a key
\* are invoked through that key as the key's array lists them: in its
\* order, each as often as it stands there, none passed over and none
\* called again; an exception thrown by a callback ends the sequence
\* where it is thrown and is the only thing that ends it early.
C27_StableSnapshot ==
    [][(IsDispatch /\ lastFrame'.kind = "event"
           /\ lastFrame'.type \in EventTypes)
        => \A k \in {lastFrame'.type, Wildcard} :
              LET stays(c) == Occ(listeners'[k], c) > 0
                  listed == SelectSeq(listeners[k], stays)
                  called == SelectSeq(CalledVia(delivered', k), stays)
              IN  /\ IsPrefix(called, listed)
                  /\ ~Threw(delivered') => called = listed]_vars

\* f and g were registered for a type in this order; during the dispatch
\* of the one frame of that type f removed itself, g stayed registered
\* and was called, once, after f.
C27_Witness ==
    \E t \in EventTypes :
        /\ received = 1
        /\ lastFrame.type = t
        /\ listeners[t] = <<"g">>
        /\ <<t, "f">> \in removed
        /\ Len(delivered) = 2
        /\ delivered[1].cb = "f" /\ delivered[1].key = t
        /\ delivered[2].cb = "g" /\ delivered[2].key = t
        /\ ~Threw(delivered)


\* ----------------------------------------------------------------- C28
\* C28: a dispatch in which a callback throws leaves the connection, the
\* reconnection timers and the registry as they were; the event that
\* follows it is dispatched, starting with the first matching subscriber.
C28_ThrowLeavesTransportAlone ==
    [][/\ (IsDispatch /\ Threw(delivered'))
            => UNCHANGED <<eventSource, sources, timers, listeners>>
       /\ (/\ IsDispatch
           /\ Threw(delivered)
           /\ lastFrame'.kind = "event"
           /\ lastFrame'.type \notin Inherited)
            => LET matching == listeners[lastFrame'.type]
                                   \o listeners[Wildcard]
               IN  matching # <<>>
                     => /\ delivered' # <<>>
                        /\ delivered'[1].cb = Head(matching)
                        /\ delivered'[1].frame = received']_vars

\* The second frame has just been dispatched on the source that delivered
\* the first, and the callback that threw on it had been called for the
\* first as well; the source is still open and no timer is pending.
C28_Witness ==
    /\ received = 2
    /\ Threw(delivered)
    /\ 1 \in seen[delivered[Len(delivered)].cb]
    /\ Len(sources) = 1
    /\ eventSource = 1
    /\ sources[1].readyState = "OPEN"
    /\ timers = <<>>
    /\ Registered(listeners) = MaxListeners


\* ----------------------------------------------------------------- C29
\* The step is the settlement of one outstanding request.
IsSettle ==
    /\ inflight' \subseteq inflight
    /\ inflight' # inflight
    /\ route' = route /\ params' = params /\ received' = received

\* C29: the failure of a request that an event handler issued leaves the
\* registry, the connection and the timers as they were; every event
\* dispatched after it that the mounted view subscribes to still reaches
\* the view's handler, which issues its requests again.
C29_FailedRefetchChangesNothing ==
    [][/\ (IsSettle /\ ~settled'.ok /\ IsRefetch(settled'))
            => UNCHANGED <<listeners, eventSource, sources, timers>>
       /\ (/\ IsDispatch
           /\ settled # NoRequest
           /\ ~settled.ok
           /\ IsRefetch(settled)
           /\ lastFrame'.kind = "event")
            => \A i \in DOMAIN ViewHandlers(route) :
                  LET h  == ViewHandlers(route)[i]
                      cb == CallbackName(route, h.handler, captured)
                  IN  h.key = lastFrame'.type
                        => /\ \E j \in DOMAIN delivered' :
                                 delivered'[j].cb = cb
                           /\ IssuedBy(cb) # {}
                           /\ \A j \in IssuedBy(cb) :
                                 \E r \in inflight' :
                                    /\ r.api = fetched'[j].api
                                    /\ r.cause = cb
                                    /\ r.mounted]_vars

\* AttendanceView's request for the first event, an attendance_scan, was
\* rejected before the second event arrived; the second, a
\* manual_checkout, reached the view's handler, whose request is
\* outstanding, and the source is still open.
C29_Witness ==
    /\ route = "AttendanceView"
    /\ received = 2
    /\ settled # NoRequest
    /\ ~settled.ok
    /\ settled.mounted
    /\ settled.after = 1
    /\ settled.cause
         = CallbackName(route, "handleAttendanceScan", captured)
    /\ lastFrame.type = "manual_checkout"
    /\ Len(delivered) = 1
    /\ delivered[1].cb = CallbackName(route, "handleManualCheckout", captured)
    /\ \E r \in inflight : r.cause = delivered[1].cb /\ r.mounted
    /\ eventSource # NULL
    /\ sources[eventSource].readyState = "OPEN"
    /\ timers = <<>>


\* ----------------------------------------------------------------- C30
\* C30: a dispatch waits for no request: the requests outstanding when it
\* starts are outstanding when it returns, none has settled meanwhile,
\* and those its handlers issue are outstanding when it returns.
C30_DispatchNeverWaits ==
    [][IsDispatch
        => /\ inflight \subseteq inflight'
           /\ settled' = settled
           /\ \A j \in DOMAIN fetched' :
                 \E r \in inflight' :
                    /\ r.api = fetched'[j].api
                    /\ r.args = fetched'[j].args
                    /\ r.cause = fetched'[j].cause
                    /\ r.mounted]_vars

\* The second event, a manual_checkout, has been dispatched to
\* AttendanceView while the request its handler issued for the first, an
\* attendance_scan, was outstanding; both requests are outstanding now.
C30_Witness ==
    /\ route = "AttendanceView"
    /\ received = 2
    /\ lastFrame.type = "manual_checkout"
    /\ Len(delivered) = 1
    /\ delivered[1].cb = CallbackName(route, "handleManualCheckout", captured)
    /\ \E r \in inflight :
          /\ r.cause = CallbackName(route, "handleAttendanceScan", captured)
          /\ r.mounted
    /\ \E r \in inflight : r.cause = delivered[1].cb /\ r.mounted


\* ----------------------------------------------------------------- C32
\* C32: for every well-formed frame, each invocation of a callback
\* registered for the frame's exact type hands it the payload and each
\* invocation of a callback registered under the wildcard hands it the
\* whole envelope.
C32_PayloadAndEnvelope ==
    [][(IsDispatch /\ lastFrame'.kind = "event")
        => \A i \in DOMAIN delivered' :
              /\ delivered'[i].key # Wildcard
                    => delivered'[i].arg = "payload"
              /\ delivered'[i].key = Wildcard
                    => delivered'[i].arg = "envelope"]_vars


\* ----------------------------------------------------------------- C36
\* C36: an event whose type is the wildcard marker invokes each wildcard
\* subscriber once per registration, with the envelope and never with the
\* bare payload.
C36_WildcardTypedEvent ==
    [][(IsDispatch /\ lastFrame'.kind = "event"
           /\ lastFrame'.type = Wildcard /\ ~Threw(delivered'))
        => \A c \in Callbacks :
              /\ Calls(delivered', "envelope", c)
                    = Occ(listeners[Wildcard], c)
              /\ Calls(delivered', "payload", c) = 0]_vars


\* ----------------------------------------------------------------- C33
\* C33: no step that changes the connection, its sources or its timers -
\* connect(), disconnect(), an error, a timer firing - changes a
\* registration; an event that arrives once the first source is closed,
\* hence on a replacement, is dispatched to the callbacks registered,
\* starting with the first matching one.
C33_RegistryOutlivesConnection ==
    [][/\ (eventSource' # eventSource \/ sources' # sources
              \/ timers' # timers)
            => listeners' = listeners
       /\ (/\ IsDispatch
           /\ sources[1].readyState = "CLOSED"
           /\ lastFrame'.kind = "event"
           /\ lastFrame'.type \notin Inherited)
            => LET matching == listeners[lastFrame'.type]
                                   \o listeners[Wildcard]
               IN  matching # <<>>
                     => /\ delivered' # <<>>
                        /\ delivered'[1].cb = Head(matching)]_vars

\* A callback registered before the first frame has seen both frames; the
\* first source is closed and the second frame came over its replacement,
\* which is open.
C33_Witness ==
    \E c \in Callbacks :
        /\ seen[c] = {1, 2}
        /\ Len(sources) = 2
        /\ sources[1].readyState = "CLOSED"
        /\ sources[2].readyState = "OPEN"
        /\ eventSource = 2
        /\ received = 2
        /\ Registered(listeners) = 1


\* ----------------------------------------------------------------- C34
\* C34: a timer that fires does not close a source that is open and has
\* signalled no error.
C34_TimerSparesHealthyConnection ==
    [][(/\ Len(timers') < Len(timers)
        /\ eventSource # NULL
        /\ sources[eventSource].readyState = "OPEN"
        /\ ~faulted)
        => sources'[eventSource].readyState = "OPEN"]_vars


\* ----------------------------------------------------------------- C35
\* C35: the dispatch of an event invokes, through the list of the event's
\* type and through the wildcard list, the registrations these lists held
\* when the dispatch began: a registration a callback makes during the
\* dispatch adds no invocation for this event, and one made during an
\* earlier dispatch is invoked like any other.
C35_NewSubscriptionWaitsForNextEvent ==
    [][(IsDispatch /\ lastFrame'.kind = "event"
           /\ lastFrame'.type \in EventTypes)
        => \A k \in {lastFrame'.type, Wildcard}, c \in Callbacks :
              /\ Occ(CalledVia(delivered', k), c) <= Occ(listeners[k], c)
              /\ ~Threw(delivered')
                    => Occ(CalledVia(delivered', k), c)
                          >= Occ(listeners[k], c)]_vars


\* ----------------------------------------------------------------- C38
\* C38: the mounted view's connected flag is set only while the service
\* holds a source that is open: not before the source has opened, and no
\* longer once an error has closed it or disconnect() has let it go.
C38_LiveOnlyWhileOpen ==
    connected => /\ eventSource # NULL
                 /\ sources[eventSource].readyState = "OPEN"


\* ----------------------------------------------------------------- C37
\* The requests the mounted view's effects issue for its current state.
Wanted == EffectFetches(route, params)
             \o OtherEffectFetches(route, params, DOMAIN params)

\* C37: when a response is stored in the mounted view's state and none
\* of the view's requests is outstanding any more, the state holds, for
\* every API the view calls for its current parameters, the response to
\* the request with these parameters: no response to a request issued
\* for earlier parameters has replaced it.
C37_LateResponseNeverOverwrites ==
    [][(/\ IsSettle
        /\ settled'.ok /\ settled'.mounted
        /\ \A r \in inflight' : ~r.mounted)
        => \A i \in DOMAIN Wanted :
              Wanted[i].api = settled'.api
                 => data'[settled'.api] = Wanted[i].args]_vars


\* ----------------------------------------------------------------- C31
\* C31: whenever the server has emitted an event of a type the mounted
\* view subscribes to, be it while the connection was open, failed or
\* being re-established, the view eventually issues a request after it.
C31_NoViewStaysStale == stale ~> ~stale

=============================================================================
